---- MODULE Spec2Model ----
(***************************************************************************)
(* SPSC notification channels of drone-core: the Pulse channel             *)
(* (sync/spsc/pulse) and the Tick channel (sync/spsc/tick).  One Sender    *)
(* and one Receiver share a state word, an error cell and a consumer       *)
(* handle cell; every atomic access (a load, one compare-exchange of the   *)
(* update loop, a cell access) is one step, so that the two threads        *)
(* interleave between any two of them.                                     *)
(***************************************************************************)
EXTENDS Integers, Sequences, FiniteSets, TLC

\* ------------------------------------------------------------- bounds
WordBits == 5    \* width of the state word (usize in the source)
MaxSends == 3    \* send / send_tick calls the Sender makes
MaxPolls == 4    \* polls the Receiver makes
MaxPulses == 2   \* largest amount passed to one send
FrameBits == 7   \* width of the words send_tick is applied to one by one

\* size_of::<usize>() * 8 of the build: the bits of the state word
VARIABLE width

\* ---------------------------------------------------- program constants
TX_WAKER_STORED == 1
RX_WAKER_STORED == 2
COMPLETE == 4
OPTION_BITS == 3
\* tick/mod.rs is not part of the sources: the lock word of the Tick channel
RX_LOCK == 8
LOCK_BITS == 4
LOCK_MASK == 15

\* pub const MAX_CAPACITY: 1 << (size_of::<usize>() * 8 - OPTION_BITS)
MAX_CAPACITY == 2 ^ (width - OPTION_BITS)

Errors == {"e1", "e2"}

\* ----------------------------------------------------- word arithmetic
Modulus == 2 ^ width

RECURSIVE AndN(_, _, _)
AndN(a, b, n) ==
  IF n = 0 THEN 0 ELSE (a % 2) * (b % 2) + 2 * AndN(a \div 2, b \div 2, n - 1)

RECURSIVE OrN(_, _, _)
OrN(a, b, n) ==
  IF n = 0 THEN 0
  ELSE (IF (a % 2) + (b % 2) > 0 THEN 1 ELSE 0) + 2 * OrN(a \div 2, b \div 2, n - 1)

RECURSIVE XorN(_, _, _)
XorN(a, b, n) ==
  IF n = 0 THEN 0
  ELSE (((a % 2) + (b % 2)) % 2) + 2 * XorN(a \div 2, b \div 2, n - 1)

BitAnd(a, b) == AndN(a, b, width)
BitOr(a, b) == OrN(a, b, width)
BitXor(a, b) == XorN(a, b, width)

\* x << k on a word: the bits shifted out are lost
Shl(x, k) == (x * (2 ^ k)) % Modulus
\* x >> k on a word (usize): zeroes come in
Shr(x, k) == x \div (2 ^ k)
\* (x as isize >> k) as usize: the sign bit is copied in
Sar(x, k) ==
  IF x >= Modulus \div 2
  THEN (x \div (2 ^ k)) + (Modulus - 2 ^ (width - k))
  ELSE x \div (2 ^ k)
WrappingAdd(x, y) == (x + y) % Modulus

Has(s, bit) == BitAnd(s, bit) # 0

VARIABLES
  flavor,      \* "pulse" or "tick": which channel() built the pair
  state,       \* Inner.state
  err,         \* Inner.err
  rx_waker,    \* Inner.rx_waker (pulse): "uninit" or the stored handle
  rx_task,     \* Inner.rx_task (tick): "None" or the stored task
  tx_pc, tx_op, tx_arg, tx_old, tx_ret,
  rx_pc, rx_old,
  results,     \* what the polls returned, in order
  nsends,      \* send / send_tick calls made
  wakes,       \* invocations of the consumer handle (the tests' COUNTER)
  tx_woke,     \* invocations made by the Sender's current operation
  tx_susp,     \* the Receiver was suspended when that operation's update committed
  sent,        \* amounts of the sends committed since the counter was last claimed
  nsent,       \* how many sends those are
  rx_snap,     \* sent and the Sender's drop, when the Receiver read the word it is deciding on
  wakesSinceReg,   \* invocations since the last registration
  opsSinceReg,     \* Sender operations committed since the last registration
  wokenSincePoll,  \* the handle was invoked since the current poll began
  skips            \* a send_tick found RX_LOCK held and skipped the notification

vars == <<flavor, width, state, err, rx_waker, rx_task, tx_pc, tx_op, tx_arg, tx_old,
          tx_ret, rx_pc, rx_old, results, nsends, wakes, tx_woke, tx_susp, sent,
          nsent,
          rx_snap, wakesSinceReg, opsSinceReg, wokenSincePoll, skips>>

txVars == <<tx_pc, tx_op, tx_arg, tx_old, tx_ret, nsends, tx_woke, tx_susp>>
rxVars == <<rx_pc, rx_old, results, rx_snap>>
cells == <<err, rx_waker, rx_task>>
wakeVars == <<wakes, wakesSinceReg, wokenSincePoll>>

\* the Sender's drop_tx has set COMPLETE
TxClosed == tx_pc \in {"drop_wake", "drop_unlock", "dead"}
Snap == [sum |-> sent, closed |-> TxClosed]
NoSnap == [sum |-> 0, closed |-> FALSE]

\* the Receiver's last poll returned not-ready and it has not polled since
Suspended ==
  /\ rx_pc = "idle" /\ Len(results) > 0
  /\ results[Len(results)].res = "pending"

NoRet == [res |-> "-", val |-> 0]
Ret(r, v) == [res |-> r, val |-> v]

FlagBits == IF flavor = "pulse" THEN OPTION_BITS ELSE LOCK_BITS
Counter(s) == Shr(s, FlagBits)
Flags(s) == s % (2 ^ FlagBits)

\* channel(): Inner::new
Init ==
  /\ flavor \in {"pulse", "tick"}
  /\ width = WordBits
  /\ state = 0
  /\ err = "None"
  /\ rx_waker = "uninit"
  /\ rx_task = "None"
  /\ tx_pc = "idle" /\ tx_op = "-" /\ tx_arg = 0 /\ tx_old = 0 /\ tx_ret = NoRet
  /\ rx_pc = "idle" /\ rx_old = 0
  /\ results = <<>>
  /\ nsends = 0 /\ wakes = 0 /\ tx_woke = 0 /\ tx_susp = FALSE
  /\ sent = 0 /\ nsent = 0 /\ rx_snap = NoSnap
  /\ wakesSinceReg = 0 /\ opsSinceReg = 0
  /\ wokenSincePoll = FALSE
  /\ skips = FALSE

\* ------------------------------------------------------------ ghosts
Invoke ==
  /\ wakes' = wakes + 1
  /\ wakesSinceReg' = wakesSinceReg + 1
  /\ wokenSincePoll' = TRUE
  /\ tx_woke' = tx_woke + 1

NoInvoke == UNCHANGED <<wakes, wakesSinceReg, wokenSincePoll, tx_woke>>

Registered ==
  /\ wakesSinceReg' = 0
  /\ opsSinceReg' = 0

\* What a poll returned, with what had been sent when it read the word it
\* decided on.
PollResult(r, v, k, snap) ==
  [res |-> r, val |-> v, k |-> k, sum |-> snap.sum, closed |-> snap.closed]

\* send_tick notifying without RX_LOCK: the lock is neither tested nor taken
SendTickTransform_NoLock(s) ==
  LET lock == BitAnd(s, LOCK_MASK) IN
  IF BitAnd(lock, COMPLETE) # 0
  THEN [res |-> "Canceled", new |-> s, notify |-> FALSE]
  ELSE LET ticks == WrappingAdd(Sar(s, LOCK_BITS), 1) IN
       IF ticks = 0
       THEN [res |-> "Overflow", new |-> s, notify |-> FALSE]
       ELSE [res |-> "Ok",
             new |-> BitOr(Shl(ticks, LOCK_BITS), lock),
             notify |-> TRUE]

\* send_tick rebuilding the word from the counter and RX_LOCK alone: the other
\* bits below the counter are dropped
SendTickTransform_DropFlags(s) ==
  LET lock == BitAnd(s, LOCK_MASK) IN
  IF BitAnd(lock, COMPLETE) # 0
  THEN [res |-> "Canceled", new |-> s, notify |-> FALSE]
  ELSE LET ticks == WrappingAdd(Sar(s, LOCK_BITS), 1) IN
       IF ticks = 0
       THEN [res |-> "Overflow", new |-> s, notify |-> FALSE]
       ELSE LET rx_locked == BitAnd(lock, RX_LOCK) = 0
            IN [res |-> "Ok",
                new |-> BitOr(Shl(ticks, LOCK_BITS), RX_LOCK),
                notify |-> rx_locked]

\* ------------------------------------------------- Sender: transforms
\* send_tick without its test of COMPLETE
SendTickTransform_NoCancel(s) ==
  LET lock == BitAnd(s, LOCK_MASK)
      ticks == WrappingAdd(Sar(s, LOCK_BITS), 1) IN
  IF ticks = 0
  THEN [res |-> "Overflow", new |-> s, notify |-> FALSE]
  ELSE LET rx_locked == BitAnd(lock, RX_LOCK) = 0
           lock2 == IF rx_locked THEN BitOr(lock, RX_LOCK) ELSE lock
       IN [res |-> "Ok",
           new |-> BitOr(Shl(ticks, LOCK_BITS), lock2),
           notify |-> rx_locked]

\* send_tick shifting the word as usize: no sign bit comes in, and the
\* counter that wraps is not seen as zero
SendTickTransform_Shr(s) ==
  LET lock == BitAnd(s, LOCK_MASK) IN
  IF BitAnd(lock, COMPLETE) # 0
  THEN [res |-> "Canceled", new |-> s, notify |-> FALSE]
  ELSE LET ticks == WrappingAdd(Shr(s, LOCK_BITS), 1) IN
       IF ticks = 0
       THEN [res |-> "Overflow", new |-> s, notify |-> FALSE]
       ELSE LET rx_locked == BitAnd(lock, RX_LOCK) = 0
                lock2 == IF rx_locked THEN BitOr(lock, RX_LOCK) ELSE lock
            IN [res |-> "Ok",
                new |-> BitOr(Shl(ticks, LOCK_BITS), lock2),
                notify |-> rx_locked]

\* send_tick with the test of RX_LOCK turned round: it notifies when the lock
\* was held, and not when it took it
SendTickTransform_LockTest(s) ==
  LET lock == BitAnd(s, LOCK_MASK) IN
  IF BitAnd(lock, COMPLETE) # 0
  THEN [res |-> "Canceled", new |-> s, notify |-> FALSE]
  ELSE LET ticks == WrappingAdd(Sar(s, LOCK_BITS), 1) IN
       IF ticks = 0
       THEN [res |-> "Overflow", new |-> s, notify |-> FALSE]
       ELSE LET rx_locked == BitAnd(lock, RX_LOCK) # 0
            IN [res |-> "Ok",
                new |-> BitOr(Shl(ticks, LOCK_BITS), lock),
                notify |-> rx_locked]

\* send_tick notifying whether or not it took RX_LOCK
SendTickTransform_AlwaysNotify(s) ==
  LET lock == BitAnd(s, LOCK_MASK) IN
  IF BitAnd(lock, COMPLETE) # 0
  THEN [res |-> "Canceled", new |-> s, notify |-> FALSE]
  ELSE LET ticks == WrappingAdd(Sar(s, LOCK_BITS), 1) IN
       IF ticks = 0
       THEN [res |-> "Overflow", new |-> s, notify |-> FALSE]
       ELSE [res |-> "Ok",
             new |-> BitOr(Shl(ticks, LOCK_BITS), BitOr(lock, RX_LOCK)),
             notify |-> TRUE]

\* The closure send_tick hands to update.
SendTickTransform(s) ==
  LET lock == BitAnd(s, LOCK_MASK) IN
  IF BitAnd(lock, COMPLETE) # 0
  THEN [res |-> "Canceled", new |-> s, notify |-> FALSE]
  ELSE LET ticks == WrappingAdd(Sar(s, LOCK_BITS), 1) IN
       IF ticks = 0
       THEN [res |-> "Overflow", new |-> s, notify |-> FALSE]
       ELSE LET rx_locked == BitAnd(lock, RX_LOCK) = 0
                lock2 == IF rx_locked THEN BitOr(lock, RX_LOCK) ELSE lock
            IN [res |-> "Ok",
                new |-> BitOr(Shl(ticks, LOCK_BITS), lock2),
                notify |-> rx_locked]

\* send with the pulses added below the counter: the shift by OPTION_BITS left out
SendTransform_NoShift(s, n) ==
  IF Has(s, COMPLETE)
  THEN [res |-> "Canceled", new |-> s, notify |-> FALSE]
  ELSE IF s + n >= Modulus
       THEN [res |-> "Overflow", new |-> s, notify |-> FALSE]
       ELSE [res |-> "Ok", new |-> s + n, notify |-> TRUE]

\* The closure of the Pulse send: a checked add of the pulses to the counter.
SendTransform(s, n) ==
  IF Has(s, COMPLETE)
  THEN [res |-> "Canceled", new |-> s, notify |-> FALSE]
  ELSE IF s + Shl(n, OPTION_BITS) >= Modulus
       THEN [res |-> "Overflow", new |-> s, notify |-> FALSE]
       ELSE [res |-> "Ok", new |-> s + Shl(n, OPTION_BITS), notify |-> TRUE]

\* drop_tx: COMPLETE is set; the Tick channel takes RX_LOCK, if free, for the
\* notification, as send_tick does.
DropTxTransform(s) ==
  IF flavor = "pulse"
  THEN [res |-> "Ok", new |-> BitOr(s, COMPLETE), notify |-> TRUE]
  ELSE LET rx_locked == ~Has(s, RX_LOCK) IN
       [res |-> "Ok",
        new |-> BitOr(BitOr(s, COMPLETE), IF rx_locked THEN RX_LOCK ELSE 0),
        notify |-> rx_locked]

\* ---------------------------------------------------- Sender: Pulse send
SendLoad(n) ==
  /\ flavor = "pulse" /\ tx_pc = "idle" /\ nsends < MaxSends
  /\ tx_op' = "send" /\ tx_arg' = n /\ tx_old' = state /\ tx_pc' = "cas"
  /\ tx_ret' = NoRet /\ tx_woke' = 0 /\ tx_susp' = FALSE /\ nsends' = nsends + 1
  /\ UNCHANGED <<flavor, width, state, cells, rxVars, wakes, wakesSinceReg,
                 wokenSincePoll, sent, nsent, opsSinceReg, skips>>

\* send storing the word it computed without comparing: a count the Receiver
\* claimed in between comes back
SendCas_Blind ==
  /\ tx_pc = "cas" /\ tx_op = "send"
  /\ LET r == SendTransform(tx_old, tx_arg) IN
       IF r.res # "Ok"
       THEN /\ tx_ret' = Ret(r.res, 0) /\ tx_pc' = "idle"
            /\ tx_old' = 0 /\ tx_arg' = 0
            /\ UNCHANGED <<state, sent, nsent, opsSinceReg, tx_susp>>
       ELSE /\ state' = r.new /\ tx_old' = r.new /\ tx_pc' = "wake"
            /\ sent' = sent + tx_arg /\ nsent' = nsent + 1
            /\ opsSinceReg' = opsSinceReg + 1
            /\ tx_susp' = Suspended
            /\ UNCHANGED <<tx_ret, tx_arg>>
  /\ UNCHANGED <<flavor, width, cells, rxVars, wakeVars, tx_op, nsends,
                 tx_woke, skips>>

SendCas ==
  /\ tx_pc = "cas" /\ tx_op = "send"
  /\ LET r == SendTransform(tx_old, tx_arg) IN
       IF r.res # "Ok"
       THEN /\ tx_ret' = Ret(r.res, 0) /\ tx_pc' = "idle"
            /\ tx_old' = 0 /\ tx_arg' = 0
            /\ UNCHANGED <<state, sent, nsent, opsSinceReg, tx_susp>>
       ELSE IF state = tx_old
       THEN /\ state' = r.new /\ tx_old' = r.new /\ tx_pc' = "wake"
            /\ sent' = sent + tx_arg /\ nsent' = nsent + 1
            /\ opsSinceReg' = opsSinceReg + 1
            /\ tx_susp' = Suspended
            /\ UNCHANGED <<tx_ret, tx_arg>>
       ELSE /\ tx_old' = state
            /\ UNCHANGED <<state, tx_pc, tx_ret, tx_arg, sent, nsent,
                           opsSinceReg, tx_susp>>
  /\ UNCHANGED <<flavor, width, cells, rxVars, wakeVars, tx_op, nsends,
                 tx_woke, skips>>

\* send taking the handle: the first send after a registration clears
\* RX_WAKER_STORED, and the sends after it find no handle
SendWake_Take ==
  /\ tx_pc = "wake" /\ tx_op = "send"
  /\ IF Has(state, RX_WAKER_STORED)
     THEN Invoke /\ state' = BitXor(state, RX_WAKER_STORED)
     ELSE NoInvoke /\ UNCHANGED state
  /\ tx_ret' = Ret("Ok", 0) /\ tx_pc' = "idle"
  /\ tx_old' = 0 /\ tx_arg' = 0
  /\ UNCHANGED <<flavor, width, cells, rxVars, tx_op, nsends, tx_susp,
                 sent, nsent, opsSinceReg, skips>>

SendWake ==
  /\ tx_pc = "wake" /\ tx_op = "send"
  /\ IF Has(tx_old, RX_WAKER_STORED) THEN Invoke ELSE NoInvoke
  /\ tx_ret' = Ret("Ok", 0) /\ tx_pc' = "idle"
  /\ tx_old' = 0 /\ tx_arg' = 0
  /\ UNCHANGED <<flavor, width, state, cells, rxVars, tx_op, nsends, tx_susp,
                 sent, nsent, opsSinceReg, skips>>

\* ------------------------------------------------- Sender: Tick send_tick
SendTickLoad ==
  /\ flavor = "tick" /\ tx_pc = "idle" /\ nsends < MaxSends
  /\ tx_op' = "send_tick" /\ tx_arg' = 0 /\ tx_old' = state /\ tx_pc' = "cas"
  /\ tx_ret' = NoRet /\ tx_woke' = 0 /\ tx_susp' = FALSE /\ nsends' = nsends + 1
  /\ UNCHANGED <<flavor, width, state, cells, rxVars, wakes, wakesSinceReg,
                 wokenSincePoll, sent, nsent, opsSinceReg, skips>>

\* send_tick closing the channel when the counter overflows
SendTickCas_OverflowCloses ==
  /\ tx_pc = "cas" /\ tx_op = "send_tick"
  /\ LET r == SendTickTransform(tx_old) IN
       IF r.res # "Ok"
       THEN /\ tx_ret' = Ret(r.res, 0) /\ tx_pc' = "idle" /\ tx_old' = 0
            /\ state' = IF r.res = "Overflow" THEN BitOr(state, COMPLETE) ELSE state
            /\ UNCHANGED <<sent, nsent, opsSinceReg, skips, tx_susp>>
       ELSE IF state = tx_old
       THEN /\ state' = r.new
            /\ sent' = sent + 1 /\ nsent' = nsent + 1
            /\ opsSinceReg' = opsSinceReg + 1
            /\ tx_susp' = Suspended
            /\ IF r.notify
               THEN /\ tx_pc' = "notify" /\ tx_old' = r.new
                    /\ UNCHANGED <<tx_ret, skips>>
               ELSE /\ tx_pc' = "idle" /\ tx_ret' = Ret("Ok", 0)
                    /\ tx_old' = 0 /\ skips' = TRUE
       ELSE /\ tx_old' = state
            /\ UNCHANGED <<state, tx_pc, tx_ret, sent, nsent, opsSinceReg,
                           skips, tx_susp>>
  /\ UNCHANGED <<flavor, width, cells, rxVars, wakeVars, tx_op, tx_arg, nsends,
                 tx_woke>>

SendTickCas ==
  /\ tx_pc = "cas" /\ tx_op = "send_tick"
  /\ LET r == SendTickTransform(tx_old) IN
       IF r.res # "Ok"
       THEN /\ tx_ret' = Ret(r.res, 0) /\ tx_pc' = "idle" /\ tx_old' = 0
            /\ UNCHANGED <<state, sent, nsent, opsSinceReg, skips, tx_susp>>
       ELSE IF state = tx_old
       THEN /\ state' = r.new
            /\ sent' = sent + 1 /\ nsent' = nsent + 1
            /\ opsSinceReg' = opsSinceReg + 1
            /\ tx_susp' = Suspended
            /\ IF r.notify
               THEN /\ tx_pc' = "notify" /\ tx_old' = r.new
                    /\ UNCHANGED <<tx_ret, skips>>
               ELSE /\ tx_pc' = "idle" /\ tx_ret' = Ret("Ok", 0)
                    /\ tx_old' = 0 /\ skips' = TRUE
       ELSE /\ tx_old' = state
            /\ UNCHANGED <<state, tx_pc, tx_ret, sent, nsent, opsSinceReg,
                           skips, tx_susp>>
  /\ UNCHANGED <<flavor, width, cells, rxVars, wakeVars, tx_op, tx_arg, nsends,
                 tx_woke>>

\* send_tick without the notification between its two updates
SendTickNotify_Skip ==
  /\ tx_pc = "notify" /\ tx_op = "send_tick"
  /\ NoInvoke
  /\ tx_pc' = "unlock"
  /\ UNCHANGED <<flavor, width, state, cells, rxVars, tx_op, tx_arg, tx_old, tx_ret,
                 nsends, tx_susp, sent, nsent, opsSinceReg, skips>>

SendTickNotify ==
  /\ tx_pc = "notify" /\ tx_op = "send_tick"
  /\ IF rx_task # "None" THEN Invoke ELSE NoInvoke
  /\ tx_pc' = "unlock"
  /\ UNCHANGED <<flavor, width, state, cells, rxVars, tx_op, tx_arg, tx_old, tx_ret,
                 nsends, tx_susp, sent, nsent, opsSinceReg, skips>>

\* send_tick releasing RX_LOCK by storing the word it holds, without comparing
SendTickUnlock_Blind ==
  /\ tx_pc = "unlock" /\ tx_op = "send_tick"
  /\ state' = BitXor(tx_old, RX_LOCK) /\ tx_old' = 0
  /\ tx_pc' = "idle" /\ tx_ret' = Ret("Ok", 0)
  /\ UNCHANGED <<flavor, width, cells, rxVars, wakeVars, tx_op, tx_arg, nsends,
                 tx_woke, tx_susp, sent, nsent, opsSinceReg, skips>>

\* send_tick trying the release of RX_LOCK once and returning whether or not
\* the compare-exchange went through
SendTickUnlock_Once ==
  /\ tx_pc = "unlock" /\ tx_op = "send_tick"
  /\ IF state = tx_old
     THEN state' = BitXor(tx_old, RX_LOCK)
     ELSE UNCHANGED state
  /\ tx_old' = 0 /\ tx_pc' = "idle" /\ tx_ret' = Ret("Ok", 0)
  /\ UNCHANGED <<flavor, width, cells, rxVars, wakeVars, tx_op, tx_arg, nsends,
                 tx_woke, tx_susp, sent, nsent, opsSinceReg, skips>>

SendTickUnlock ==
  /\ tx_pc = "unlock" /\ tx_op = "send_tick"
  /\ IF state = tx_old
     THEN /\ state' = BitXor(tx_old, RX_LOCK) /\ tx_old' = 0
          /\ tx_pc' = "idle" /\ tx_ret' = Ret("Ok", 0)
     ELSE /\ tx_old' = state /\ UNCHANGED <<state, tx_pc, tx_ret>>
  /\ UNCHANGED <<flavor, width, cells, rxVars, wakeVars, tx_op, tx_arg, nsends,
                 tx_woke, tx_susp, sent, nsent, opsSinceReg, skips>>

\* ------------------------------------------------------ Sender: send_err
\* send_err without the is_canceled() test
SendErrCheck_NoTest(e) ==
  /\ tx_pc = "idle"
  /\ tx_op' = "send_err" /\ tx_arg' = e /\ tx_woke' = 0 /\ tx_susp' = FALSE
  /\ tx_ret' = NoRet /\ tx_pc' = "err_store"
  /\ UNCHANGED <<flavor, width, state, cells, rxVars, wakeVars, tx_old, nsends,
                 sent, nsent, opsSinceReg, skips>>

\* Inner::send_err, the is_canceled() test
SendErrCheck(e) ==
  /\ tx_pc = "idle"
  /\ tx_op' = "send_err" /\ tx_arg' = e /\ tx_woke' = 0 /\ tx_susp' = FALSE
  /\ IF Has(state, COMPLETE)
     THEN tx_ret' = Ret("Err", e) /\ tx_pc' = "drop"
     ELSE tx_ret' = NoRet /\ tx_pc' = "err_store"
  /\ UNCHANGED <<flavor, width, state, cells, rxVars, wakeVars, tx_old, nsends,
                 sent, nsent, opsSinceReg, skips>>

\* send_err returning Ok(()) with the error not stored
SendErrStore_Lost ==
  /\ tx_pc = "err_store"
  /\ tx_ret' = Ret("Ok", 0) /\ tx_pc' = "drop"
  /\ UNCHANGED <<flavor, width, state, cells, rxVars, wakeVars, tx_op,
                 tx_arg, tx_old, nsends, tx_woke, tx_susp, sent, nsent,
                 opsSinceReg, skips>>

\* Inner::send_err, the store into the error cell
SendErrStore ==
  /\ tx_pc = "err_store"
  /\ err' = tx_arg
  /\ tx_ret' = Ret("Ok", 0) /\ tx_pc' = "drop"
  /\ UNCHANGED <<flavor, width, state, rx_waker, rx_task, rxVars, wakeVars, tx_op,
                 tx_arg, tx_old, nsends, tx_woke, tx_susp, sent, nsent,
                 opsSinceReg, skips>>

\* ------------------------------------------------- Sender: drop (drop_tx)
\* drop(tx), or the end of Sender::send_err, which consumes the Sender
DropTxLoad ==
  /\ tx_pc \in {"idle", "drop"}
  /\ IF tx_pc = "idle"
     THEN tx_op' = "drop" /\ tx_ret' = NoRet /\ tx_woke' = 0 /\ tx_susp' = FALSE /\ tx_arg' = 0
     ELSE UNCHANGED <<tx_op, tx_ret, tx_woke, tx_susp, tx_arg>>
  /\ tx_old' = state /\ tx_pc' = "drop_cas"
  /\ UNCHANGED <<flavor, width, state, cells, rxVars, wakeVars, nsends, sent, nsent, opsSinceReg, skips>>

DropTxCas ==
  /\ tx_pc = "drop_cas"
  /\ LET r == DropTxTransform(tx_old) IN
       IF state = tx_old
       THEN /\ state' = r.new
            /\ opsSinceReg' = opsSinceReg + 1
            /\ tx_pc' = IF r.notify THEN "drop_wake" ELSE "dead"
            /\ tx_old' = IF r.notify THEN r.new ELSE 0
            /\ tx_susp' = Suspended
       ELSE /\ tx_old' = state
            /\ UNCHANGED <<state, tx_pc, opsSinceReg, tx_susp>>
  /\ UNCHANGED <<flavor, width, cells, rxVars, wakeVars, tx_op, tx_arg, tx_ret,
                 nsends, tx_woke, sent, nsent, skips>>

DropTxWake ==
  /\ tx_pc = "drop_wake"
  /\ IF flavor = "pulse"
     THEN /\ IF Has(tx_old, RX_WAKER_STORED) THEN Invoke ELSE NoInvoke
          /\ tx_pc' = "dead" /\ tx_old' = 0
     ELSE /\ IF rx_task # "None" THEN Invoke ELSE NoInvoke
          /\ tx_pc' = "drop_unlock" /\ UNCHANGED tx_old
  /\ UNCHANGED <<flavor, width, state, cells, rxVars, tx_op, tx_arg, tx_ret,
                 nsends, tx_susp, sent, nsent, opsSinceReg, skips>>

DropTxUnlock ==
  /\ tx_pc = "drop_unlock"
  /\ IF state = tx_old
     THEN /\ state' = BitXor(tx_old, RX_LOCK) /\ tx_old' = 0
          /\ tx_pc' = "dead"
     ELSE /\ tx_old' = state /\ UNCHANGED <<state, tx_pc>>
  /\ UNCHANGED <<flavor, width, cells, rxVars, wakeVars, tx_op, tx_arg, tx_ret,
                 nsends, tx_woke, tx_susp, sent, nsent, opsSinceReg, skips>>

\* ------------------------------------------------------- Receiver: poll
PollLoad ==
  /\ rx_pc = "idle" /\ Len(results) < MaxPolls
  /\ rx_old' = state /\ rx_snap' = Snap /\ rx_pc' = "cas"
  /\ wokenSincePoll' = FALSE
  /\ UNCHANGED <<flavor, width, state, cells, txVars, results, wakes, wakesSinceReg,
                 sent, nsent, opsSinceReg, skips>>

\* The poll's update on a word whose counter is not zero: the counter is
\* claimed and zeroed, the flags are kept.
PollTake ==
  /\ rx_pc = "cas" /\ Counter(rx_old) # 0
  /\ IF state = rx_old
     THEN /\ state' = Flags(rx_old)
          /\ results' = Append(results,
               PollResult("ready", Counter(rx_old), nsent, Snap))
          /\ sent' = 0 /\ nsent' = 0
          /\ rx_pc' = "idle" /\ rx_old' = 0 /\ rx_snap' = NoSnap
     ELSE /\ rx_old' = state /\ rx_snap' = Snap
          /\ UNCHANGED <<state, results, sent, nsent, rx_pc>>
  /\ UNCHANGED <<flavor, width, cells, txVars, wakeVars, opsSinceReg, skips>>

\* the poll looking at COMPLETE before it looks at the counter
PollComplete_First ==
  /\ rx_pc = "cas" /\ Has(rx_old, COMPLETE)
  /\ rx_pc' = "take_err"
  /\ UNCHANGED <<flavor, width, state, cells, txVars, rx_old, results, rx_snap,
                 wakeVars, sent, nsent, opsSinceReg, skips>>

\* counter zero and COMPLETE set: the sequence ends, with the stored error first
PollComplete ==
  /\ rx_pc = "cas" /\ Counter(rx_old) = 0 /\ Has(rx_old, COMPLETE)
  /\ rx_pc' = "take_err"
  /\ UNCHANGED <<flavor, width, state, cells, txVars, rx_old, results, rx_snap,
                 wakeVars, sent, nsent, opsSinceReg, skips>>

PollTakeErr ==
  /\ rx_pc = "take_err"
  /\ IF err # "None"
     THEN /\ results' = Append(results, PollResult("err", err, 0, rx_snap))
          /\ err' = "None"
     ELSE /\ results' = Append(results, PollResult("none", 0, 0, rx_snap))
          /\ UNCHANGED err
  /\ rx_pc' = "idle" /\ rx_old' = 0 /\ rx_snap' = NoSnap
  /\ UNCHANGED <<flavor, width, state, rx_waker, rx_task, txVars,
                 wakeVars, sent, nsent, opsSinceReg, skips>>

\* Pulse, counter zero and channel open: the handle is registered, unless one
\* is registered already, and the poll suspends.
PulsePollRegister ==
  /\ flavor = "pulse"
  /\ rx_pc = "cas" /\ Counter(rx_old) = 0 /\ ~Has(rx_old, COMPLETE)
  /\ IF Has(rx_old, RX_WAKER_STORED)
     THEN /\ results' = Append(results, PollResult("pending", 0, 0, rx_snap))
          /\ rx_pc' = "idle" /\ rx_old' = 0 /\ rx_snap' = NoSnap
          /\ UNCHANGED <<state, rx_waker, wakesSinceReg, opsSinceReg>>
     ELSE IF state = rx_old
     THEN /\ state' = BitOr(rx_old, RX_WAKER_STORED)
          /\ rx_waker' = "waker"
          /\ Registered
          /\ results' = Append(results, PollResult("pending", 0, 0, rx_snap))
          /\ rx_pc' = "idle" /\ rx_old' = 0 /\ rx_snap' = NoSnap
     ELSE /\ rx_old' = state /\ rx_snap' = Snap
          /\ UNCHANGED <<state, rx_waker, results, rx_pc, wakesSinceReg,
                         opsSinceReg>>
  /\ UNCHANGED <<flavor, width, err, rx_task, txVars, wakes, wokenSincePoll, sent,
                 nsent, skips>>

\* Tick, counter zero and channel open: RX_LOCK is taken for the store of the
\* task; while the Sender holds it the word is read again.
TickPollLock ==
  /\ flavor = "tick"
  /\ rx_pc = "cas" /\ Counter(rx_old) = 0 /\ ~Has(rx_old, COMPLETE)
  /\ IF Has(rx_old, RX_LOCK)
     THEN /\ state # rx_old
          /\ rx_old' = state /\ rx_snap' = Snap
          /\ UNCHANGED <<state, rx_pc>>
     ELSE IF state = rx_old
     THEN /\ state' = BitOr(rx_old, RX_LOCK)
          /\ rx_old' = BitOr(rx_old, RX_LOCK)
          /\ rx_pc' = "store"
          /\ UNCHANGED rx_snap
     ELSE /\ rx_old' = state /\ rx_snap' = Snap
          /\ UNCHANGED <<state, rx_pc>>
  /\ UNCHANGED <<flavor, width, cells, txVars, results, wakeVars, sent, nsent,
                 opsSinceReg, skips>>

TickPollStore ==
  /\ rx_pc = "store"
  /\ rx_task' = "task"
  /\ Registered
  /\ rx_pc' = "unlock"
  /\ UNCHANGED <<flavor, width, state, err, rx_waker, txVars, rx_old, results, rx_snap,
                 wakes, wokenSincePoll, sent, nsent, skips>>

\* RX_LOCK is released; the word the release produced is looked at again, and
\* only a zero counter on an open channel suspends the poll.
TickPollUnlock ==
  /\ rx_pc = "unlock"
  /\ IF state = rx_old
     THEN LET new == BitXor(rx_old, RX_LOCK) IN
          /\ state' = new
          /\ IF Counter(new) # 0 \/ Has(new, COMPLETE)
             THEN /\ rx_pc' = "cas" /\ rx_old' = new /\ rx_snap' = Snap
                  /\ UNCHANGED results
             ELSE /\ rx_pc' = "idle" /\ rx_old' = 0 /\ rx_snap' = NoSnap
                  /\ results' = Append(results,
                       PollResult("pending", 0, 0, Snap))
     ELSE /\ rx_old' = state /\ rx_snap' = Snap
          /\ UNCHANGED <<state, rx_pc, results>>
  /\ UNCHANGED <<flavor, width, cells, txVars, wakeVars, sent, nsent,
                 opsSinceReg, skips>>

\* ----------------------------------------------- Receiver: drop (drop_rx)
DropRxLoad ==
  /\ rx_pc = "idle"
  /\ rx_old' = state /\ rx_pc' = "drop_cas"
  /\ UNCHANGED <<flavor, width, state, cells, txVars, results, rx_snap, wakeVars,
                 sent, nsent, opsSinceReg, skips>>

DropRxCas ==
  /\ rx_pc = "drop_cas"
  /\ IF state = rx_old
     THEN /\ state' = BitOr(rx_old, COMPLETE) /\ rx_pc' = "dead"
          /\ rx_old' = 0
     ELSE /\ rx_old' = state /\ UNCHANGED <<state, rx_pc>>
  /\ UNCHANGED <<flavor, width, cells, txVars, results, rx_snap, wakeVars, sent,
                 nsent, opsSinceReg, skips>>

\* ------------------------------------------------------- specification
Next ==
  \/ \E n \in 1..MaxPulses : SendLoad(n)
  \/ SendCas
  \/ SendWake
  \/ SendTickLoad
  \/ SendTickCas
  \/ SendTickNotify
  \/ SendTickUnlock
  \/ \E e \in Errors : SendErrCheck(e)
  \/ SendErrStore
  \/ DropTxLoad
  \/ DropTxCas
  \/ DropTxWake
  \/ DropTxUnlock
  \/ PollLoad
  \/ PollTake
  \/ PollComplete
  \/ PollTakeErr
  \/ PulsePollRegister
  \/ TickPollLock
  \/ TickPollStore
  \/ TickPollUnlock
  \/ DropRxLoad
  \/ DropRxCas

Spec == Init /\ [][Next]_vars

\* The Tick channel with send_tick, the polls and the two drops, under the
\* scheduling of the Sender's thread: its call of send_tick runs to its end,
\* so once the first update has taken RX_LOCK the notification and the retry
\* loop of the release keep being executed.
InitLive == Init /\ flavor = "tick"

NextLive ==
  \/ SendTickLoad
  \/ SendTickCas
  \/ SendTickNotify
  \/ SendTickUnlock
  \/ DropTxLoad
  \/ DropTxCas
  \/ DropTxWake
  \/ DropTxUnlock
  \/ PollLoad
  \/ PollTake
  \/ PollComplete
  \/ PollTakeErr
  \/ TickPollLock
  \/ TickPollStore
  \/ TickPollUnlock
  \/ DropRxLoad
  \/ DropRxCas

SpecLive ==
  /\ InitLive /\ [][NextLive]_vars
  /\ WF_vars(SendTickNotify) /\ WF_vars(SendTickUnlock)

\* send_tick on its own, from every word of FrameBits bits: a Tick channel
\* whose state word and task cell hold any value, and a Sender that calls
\* send_tick with no Receiver running
InitFrame ==
  /\ flavor = "tick"
  /\ width = FrameBits
  /\ state \in 0..(2 ^ FrameBits - 1)
  /\ err = "None"
  /\ rx_waker = "uninit"
  /\ rx_task \in {"None", "task"}
  /\ tx_pc = "idle" /\ tx_op = "-" /\ tx_arg = 0 /\ tx_old = 0 /\ tx_ret = NoRet
  /\ rx_pc = "idle" /\ rx_old = 0
  /\ results = <<>>
  /\ nsends = 0 /\ wakes = 0 /\ tx_woke = 0 /\ tx_susp = FALSE
  /\ sent = 0 /\ nsent = 0 /\ rx_snap = NoSnap
  /\ wakesSinceReg = 0 /\ opsSinceReg = 0
  /\ wokenSincePoll = FALSE
  /\ skips = FALSE

NextFrame ==
  \/ SendTickLoad
  \/ SendTickCas
  \/ SendTickNotify
  \/ SendTickUnlock

SpecFrame == InitFrame /\ [][NextFrame]_vars

\* ------------------------------------------------------------- claims
Polls == 1..Len(results)

\* C1: Coalescing (Pulse).  A poll yields one element, the sum of the amounts of
\* all the sends committed since the counter was last claimed (k >= 1 sends); a
\* poll that read the word when nothing was unclaimed returns not-ready while
\* the Sender has not been dropped and ends the sequence once it has.
C1_Coalescing ==
  flavor = "pulse" =>
    \A i \in Polls :
      LET r == results[i] IN
      /\ r.res = "ready" => (r.val = r.sum /\ r.k >= 1 /\ r.val >= r.k)
      /\ r.sum >= 1 => r.res = "ready"
      /\ (r.sum = 0 /\ ~r.closed) => r.res = "pending"
      /\ (r.sum = 0 /\ r.closed) => r.res \in {"none", "err"}

\* three sends claimed by one poll, and the poll after it not ready
C1_Witness ==
  /\ flavor = "pulse"
  /\ \E i \in Polls :
       /\ results[i].res = "ready" /\ results[i].k = 3 /\ results[i].val >= 3
       /\ i + 1 \in Polls /\ results[i + 1].res = "pending"

\* C2: Termination (Pulse).  Once the Sender is dropped, a poll that finds
\* nothing unclaimed and no error ends the sequence; one that finds data yields
\* the accumulated count, and the poll after it ends the sequence.  The
\* sequence never ends while data sent before the drop is unclaimed.
C2_Termination ==
  flavor = "pulse" =>
    \A i \in Polls :
      LET r == results[i] IN
      /\ r.res \in {"none", "err"} => (r.sum = 0 /\ r.closed)
      /\ (r.closed /\ r.sum = 0 /\ tx_op = "drop") => r.res = "none"
      /\ (r.closed /\ r.sum > 0) =>
           /\ r.res = "ready" /\ r.val = r.sum
           /\ (i + 1 \in Polls /\ tx_op = "drop") => results[i + 1].res = "none"

\* the Sender dropped with data unclaimed: the count, then the end
C2_Witness ==
  /\ flavor = "pulse" /\ tx_op = "drop"
  /\ \E i \in Polls :
       /\ results[i].closed /\ results[i].res = "ready"
       /\ i + 1 \in Polls /\ results[i + 1].res = "none"

\* C3: send_err on a channel that is not COMPLETE returns Ok(()) (it returns
\* Err only when the Receiver is gone), and the Receiver gets the error as one
\* terminal element: the first poll that finds the counter zero after the
\* Sender is gone yields Err(e), and every later poll ends the sequence.
C3_SendErrObserved ==
  /\ (tx_op = "send_err" /\ tx_ret.res = "Err") => rx_pc = "dead"
  /\ (tx_op = "send_err" /\ tx_pc \in {"drop", "drop_cas", "drop_wake", "drop_unlock", "dead"})
       => tx_ret.res \in {"Ok", "Err"}
  /\ \A i \in Polls :
       LET r == results[i] IN
       /\ r.res = "err" =>
            (tx_op = "send_err" /\ tx_ret.res = "Ok" /\ r.val = tx_arg)
       /\ (r.closed /\ r.sum = 0 /\ tx_op = "send_err" /\ tx_ret.res = "Ok") =>
            IF \E j \in 1..(i - 1) : results[j].res = "err"
            THEN r.res = "none"
            ELSE r.res = "err"

\* the error yielded, and the poll after it ending the sequence
C3_Witness ==
  /\ tx_op = "send_err" /\ tx_ret.res = "Ok" /\ tx_arg = "e2"
  /\ \E i \in Polls :
       /\ results[i].res = "err" /\ results[i].val = "e2"
       /\ i + 1 \in Polls /\ results[i + 1].res = "none"

\* C4: send_err(e) on a channel whose COMPLETE is already set (the Receiver was
\* dropped) returns Err(e) with the same e, and changes neither the error cell
\* nor the state word.
C4_SendErrCanceled ==
  /\ [][(tx_pc = "idle" /\ tx_pc' \in {"drop", "err_store"} /\ Has(state, COMPLETE))
          => /\ tx_pc' = "drop"
             /\ tx_ret' = Ret("Err", tx_arg')
             /\ err' = err /\ state' = state]_vars
  /\ []((tx_op = "send_err" /\ tx_ret.res = "Err")
          => (tx_ret.val = tx_arg /\ err = "None" /\ Has(state, COMPLETE)))

\* send_err("e2") after the Receiver's drop has handed "e2" back
C4_Witness ==
  /\ rx_pc = "dead" /\ tx_op = "send_err"
  /\ tx_ret.res = "Err" /\ tx_ret.val = "e2" /\ tx_pc = "dead"

\* C5: Canceled.  A send or send_tick whose transform sees COMPLETE returns
\* Canceled: the state word is unchanged (no count added, RX_LOCK not taken)
\* and the handle is not invoked.
C5_Canceled ==
  /\ [][(/\ tx_pc = "cas" /\ tx_op \in {"send", "send_tick"}
         /\ Has(tx_old, COMPLETE) /\ tx_pc' # "cas")
          => /\ tx_ret'.res = "Canceled" /\ tx_pc' = "idle"
             /\ state' = state /\ wakes' = wakes /\ sent' = sent]_vars
  /\ [](tx_ret.res = "Canceled" => (tx_woke = 0 /\ Has(state, COMPLETE)))

\* a send_tick after the Receiver's drop has returned Canceled
C5_Witness ==
  /\ flavor = "tick" /\ tx_op = "send_tick" /\ tx_pc = "idle"
  /\ tx_ret.res = "Canceled" /\ rx_pc = "dead"

\* the largest tick count the word holds
MaxTicks == 2 ^ (width - LOCK_BITS) - 1

\* C6: Overflow (Tick).  send_tick returns Overflow exactly when the counter of
\* the word it read is at its maximum (and COMPLETE is not set); the state word
\* is then unchanged, RX_LOCK is not taken, and the count before the overflow is
\* what the Receiver's poll yields.
C6_Overflow ==
  /\ [][(tx_pc = "cas" /\ tx_op = "send_tick" /\ tx_pc' # "cas")
          => /\ (tx_ret'.res = "Overflow")
                  <=> (~Has(tx_old, COMPLETE) /\ Counter(tx_old) = MaxTicks)
             /\ tx_ret'.res = "Overflow"
                  => (state' = state /\ wakes' = wakes /\ sent' = sent)]_vars
  /\ [](flavor = "tick" =>
          \A i \in Polls :
            results[i].res = "ready" =>
              (results[i].val = results[i].sum /\ results[i].val <= MaxTicks))

\* a send_tick returned Overflow, and the poll after it yielded the full count
C6_Witness ==
  /\ flavor = "tick" /\ tx_op = "send_tick" /\ tx_ret.res = "Overflow"
  /\ Len(results) > 0
  /\ results[Len(results)].res = "ready"
  /\ results[Len(results)].val = MaxTicks

\* the consumer handle cell holds a handle the Receiver stored
HandleStored ==
  IF flavor = "pulse"
  THEN Has(state, RX_WAKER_STORED) /\ rx_waker = "waker"
  ELSE rx_task = "task"

\* C7: Wake-on-data.  A poll that returns not-ready leaves one handle
\* registered (Pulse: RX_WAKER_STORED set and the cell written), and a
\* successful send committed while the Receiver is so suspended invokes the
\* handle exactly once.
C7_WakeOnData ==
  /\ Suspended => HandleStored
  /\ (/\ tx_pc = "idle" /\ tx_op \in {"send", "send_tick"}
      /\ tx_ret.res = "Ok" /\ tx_susp) => tx_woke = 1

\* the poll returned not-ready, then one send has woken the Receiver once
C7_Witness ==
  /\ flavor = "pulse" /\ Suspended /\ Len(results) = 1
  /\ tx_pc = "idle" /\ tx_op = "send" /\ tx_ret.res = "Ok"
  /\ tx_susp /\ tx_woke = 1 /\ wakes = 1

\* C8, as stated: after one registration, with no registration after it, the
\* handle is invoked at most once by all the sends, send_err and the drop
\* that follow.
C8_OncePerRegistration == wakesSinceReg <= 1

\* C8, amended: the Sender invokes the registered handle by reference and
\* leaves it registered, so one operation of the Sender (a successful send or
\* send_tick, or its drop, the one ending send_err included) invokes it at most
\* once, and the invocations since a registration are at most the operations
\* committed since; no handle is invoked before one was registered.
C8_OncePerOperation ==
  /\ tx_woke <= 1
  /\ wakesSinceReg <= opsSinceReg
  /\ wakes > 0 => (rx_waker = "waker" \/ rx_task = "task")

\* one registration, invoked by each of three operations of the Sender
C8_Witness ==
  /\ wakesSinceReg = 3 /\ opsSinceReg = 3 /\ tx_woke = 1
  /\ Len(results) = 1 /\ results[1].res = "pending"

RECURSIVE Claimed(_)
\* the sends whose amounts the first i polls have claimed
Claimed(i) == IF i = 0 THEN 0 ELSE results[i].k + Claimed(i - 1)

\* C9: Wake accounting of the tests (Pulse).  No handle is invoked before a
\* poll has returned not-ready; from then on every successful send and the
\* Sender's drop invoke it once each, so that a run that begins with a
\* not-ready poll and ends with the Sender dropped counts one invocation for
\* each successful send and one for the drop (recv_many: 4, send_async: 2).
C9_WakeAccounting ==
  flavor = "pulse" =>
    /\ wakes > 0 => \E i \in Polls : results[i].res = "pending"
    /\ ((\E i \in Polls : results[i].res = "pending")
          /\ tx_pc \notin {"wake", "drop_wake"}) => wakes = opsSinceReg
    /\ (/\ Len(results) >= 1 /\ results[1].res = "pending"
        /\ tx_op = "drop" /\ tx_pc = "dead")
         => wakes = Claimed(Len(results)) + nsent + 1

\* recv_many: not-ready, three sends, the count 3, not-ready, the drop, the end
C9_Witness ==
  /\ flavor = "pulse" /\ Len(results) = 4
  /\ results[1].res = "pending"
  /\ results[2].res = "ready" /\ results[2].val = 3 /\ results[2].k = 3
  /\ results[3].res = "pending"
  /\ results[4].res = "none"
  /\ tx_op = "drop" /\ tx_pc = "dead" /\ wakes = 4

\* the Sender has committed an update and is about to invoke the handle
WakeOwed ==
  IF flavor = "pulse"
  THEN tx_pc \in {"wake", "drop_wake"} /\ Has(tx_old, RX_WAKER_STORED)
  ELSE tx_pc \in {"notify", "drop_wake"} /\ rx_task # "None"

\* C10: No missed wake.  In every interleaving, a Receiver whose poll returned
\* not-ready is never left with the counter non-zero or COMPLETE set unless
\* its handle has been invoked since that poll began or the Sender is about to
\* invoke it; a poll that holds RX_LOCK while send_tick skips the notification
\* sees the new count itself.
C10_NoMissedWake ==
  (Suspended /\ (Counter(state) # 0 \/ Has(state, COMPLETE)))
    => (wokenSincePoll \/ WakeOwed)

\* Tick: a send_tick found RX_LOCK held by the registering poll and skipped
\* the notification; the poll yielded its tick, and a later tick reached the
\* suspended Receiver with a wake
C10_Witness ==
  /\ flavor = "tick" /\ skips /\ rx_task = "task"
  /\ Suspended /\ Counter(state) # 0 /\ wokenSincePoll
  /\ \E i \in Polls : results[i].res = "ready"

RECURSIVE Yielded(_)
\* the sum of the counts the first i polls yielded
Yielded(i) ==
  IF i = 0 THEN 0
  ELSE (IF results[i].res = "ready" THEN results[i].val ELSE 0) + Yielded(i - 1)

RECURSIVE Accounted(_)
\* the sum of the amounts of the sends the first i polls claimed
Accounted(i) ==
  IF i = 0 THEN 0
  ELSE (IF results[i].res = "ready" THEN results[i].sum ELSE 0) + Accounted(i - 1)

\* C11: No event is lost or counted twice.  In every interleaving the counts
\* the polls have yielded plus the counter in the state word equal the amounts
\* of all successful sends, the counter alone equals the amounts not yet
\* claimed, and a poll that read the word after a successful send whose amount
\* was unclaimed yields a non-zero count.
C11_Conservation ==
  /\ Yielded(Len(results)) + Counter(state) = Accounted(Len(results)) + sent
  /\ Counter(state) = sent
  /\ \A i \in Polls :
       results[i].sum >= 1 => (results[i].res = "ready" /\ results[i].val >= 1)

\* a send read the word, the poll then claimed the count: the send's
\* compare-exchange is about to fail against the zeroed counter
C11_Witness ==
  /\ flavor = "pulse" /\ tx_pc = "cas" /\ tx_op = "send"
  /\ Counter(tx_old) # 0 /\ Counter(state) = 0
  /\ Len(results) > 0 /\ results[Len(results)].res = "ready"
  /\ Yielded(Len(results)) >= 1

\* C12: MAX_CAPACITY is the largest value the Pulse counter holds,
\* 2^(W-3) - 1 for a word of W bits, so that sends whose amounts total
\* MAX_CAPACITY or less fit in the counter and none of them overflows.
C12_MaxCapacityFits ==
  /\ MAX_CAPACITY = 2 ^ (width - OPTION_BITS) - 1
  /\ (/\ flavor = "pulse" /\ tx_pc = "cas" /\ tx_op = "send"
      /\ ~Has(tx_old, COMPLETE)
      /\ Counter(tx_old) + tx_arg <= MAX_CAPACITY)
       => SendTransform(tx_old, tx_arg).res = "Ok"

\* the counter is full below MAX_CAPACITY: the send that brings the total to
\* exactly MAX_CAPACITY is about to return Overflow
C12_Witness ==
  /\ flavor = "pulse" /\ tx_pc = "cas" /\ tx_op = "send" /\ tx_old = state
  /\ sent + tx_arg = MAX_CAPACITY
  /\ Counter(tx_old) = sent
  /\ SendTransform(tx_old, tx_arg).res = "Overflow"

\* C13: COMPLETE is monotonic.  No step of any operation (send, send_tick and
\* its release of RX_LOCK, send_err, poll, either drop) clears COMPLETE once it
\* is set, and the drop of the second endpoint leaves it set.
C13_CompleteMonotonic ==
  /\ [][Has(state, COMPLETE) => Has(state', COMPLETE)]_vars
  /\ [](rx_pc = "dead" \/ tx_pc = "dead" => Has(state, COMPLETE))

\* the Receiver was dropped between the two updates of a send_tick: the
\* release of RX_LOCK has failed once and now holds a word with COMPLETE set
C13_Witness ==
  /\ flavor = "tick" /\ tx_pc = "unlock" /\ rx_pc = "dead"
  /\ tx_old = state /\ Has(state, COMPLETE) /\ Has(state, RX_LOCK)

\* C15: send_err tests COMPLETE and stores the error in one atomic update
\* (Tick): whenever send_err is about to store its error, having found the
\* channel open, COMPLETE is still unset, so that Ok(()) is never returned for
\* an error written after the Receiver set COMPLETE.
C15_SendErrAtomic ==
  (flavor = "tick" /\ tx_pc = "err_store") => ~Has(state, COMPLETE)

\* the Receiver was dropped between send_err's test and its store: the error
\* is about to be written, and Ok(()) returned, with COMPLETE set
C15_Witness ==
  /\ flavor = "tick" /\ tx_op = "send_err" /\ tx_pc = "err_store"
  /\ rx_pc = "dead" /\ Has(state, COMPLETE) /\ err = "None"

\* the Sender is inside the section RX_LOCK guards: between the update that
\* took the lock and the one that releases it
TxHoldsLock == tx_pc \in {"notify", "unlock", "drop_wake", "drop_unlock"}
\* the Receiver is inside it, storing its task
RxHoldsLock == rx_pc \in {"store", "unlock"}

\* C16: RX_LOCK mutual exclusion (Tick).  send_tick invokes the consumer handle
\* only between the update in which it changed RX_LOCK from clear to set and
\* its release; a send_tick whose update found RX_LOCK set invokes nothing;
\* and the Sender's access to the handle never overlaps the access of the
\* Receiver holding RX_LOCK.
C16_RxLockExclusion ==
  /\ [][(flavor = "tick" /\ tx_op = "send_tick" /\ wakes' # wakes)
          => (tx_pc = "notify" /\ Has(state, RX_LOCK) /\ ~RxHoldsLock)]_vars
  /\ [][(/\ tx_pc = "cas" /\ tx_op = "send_tick" /\ nsent' = nsent + 1
         /\ Has(state, RX_LOCK))
          => (tx_pc' = "idle" /\ wakes' = wakes /\ Has(state', RX_LOCK))]_vars
  /\ [](flavor = "tick" =>
          /\ ~(TxHoldsLock /\ RxHoldsLock)
          /\ (TxHoldsLock \/ RxHoldsLock) => Has(state, RX_LOCK)
          /\ tx_woke <= 1)

\* the Receiver holds RX_LOCK to store its task; a send_tick has added its
\* tick and returned without notifying
C16_Witness ==
  /\ flavor = "tick" /\ rx_pc = "store" /\ Has(state, RX_LOCK)
  /\ tx_pc = "idle" /\ tx_op = "send_tick" /\ tx_ret.res = "Ok"
  /\ skips /\ tx_woke = 0 /\ Counter(state) # 0

\* some send or send_tick of the Sender failed, and not with Canceled: the
\* Receiver has not been dropped, so the failure was Overflow
Overflowed ==
  /\ nsends > Claimed(Len(results)) + nsent
  /\ tx_op = "send_err" /\ rx_pc # "dead"

\* C18: The channel stays usable after Overflow.  A send_err(e) that follows
\* an Overflow on the still-open channel returns Ok(()); the counter still
\* holds what was sent before the overflow, the Receiver gets it as one
\* element, then Err(e), then the end of the sequence.
C18_UsableAfterOverflow ==
  Overflowed =>
    /\ tx_ret.res \in {"-", "Ok"}
    /\ Counter(state) = sent
    /\ tx_ret.res = "Ok" =>
         \A i \in Polls :
           LET r == results[i] IN
           /\ (r.closed /\ r.sum > 0) => (r.res = "ready" /\ r.val = r.sum)
           /\ (r.closed /\ r.sum = 0) =>
                IF \E j \in 1..(i - 1) : results[j].res = "err"
                THEN r.res = "none"
                ELSE r.res = "err" /\ r.val = tx_arg

\* Tick: the counter full, a send_tick refused with Overflow, send_err("e1");
\* the polls yielded the full count and then the error
C18_Witness ==
  /\ flavor = "tick" /\ Overflowed /\ tx_ret.res = "Ok" /\ tx_arg = "e1"
  /\ Len(results) = 2
  /\ results[1].res = "ready" /\ results[1].val = MaxTicks /\ results[1].closed
  /\ results[2].res = "err" /\ results[2].val = "e1"

\* C19: Frame of a successful send_tick.  From every word, those with the top
\* bit of the counter set included, the update of a send_tick that returns Ok
\* adds one to the counter, leaves RX_LOCK set (taking it if it was clear, in
\* which case the notification follows, and only then), and keeps every other
\* bit below the counter; it succeeds exactly on a word without COMPLETE whose
\* counter is below its maximum.
C19_SendTickFrame ==
  /\ [][(tx_pc = "cas" /\ tx_op = "send_tick" /\ tx_pc' # "cas")
          => /\ (nsent' = nsent + 1)
                  <=> (~Has(tx_old, COMPLETE) /\ Counter(tx_old) < MaxTicks)
             /\ (nsent' = nsent + 1) =>
                  /\ state = tx_old
                  /\ Counter(state') = Counter(state) + 1
                  /\ Has(state', RX_LOCK)
                  /\ \A b \in {TX_WAKER_STORED, RX_WAKER_STORED, COMPLETE} :
                       Has(state', b) <=> Has(state, b)
                  /\ Flags(state') = BitOr(Flags(state), RX_LOCK)
                  /\ tx_pc' = IF Has(state, RX_LOCK) THEN "idle" ELSE "notify"
             /\ (nsent' = nsent) => state' = state]_vars

\* a send_tick has taken RX_LOCK and added one to a counter whose top bit was
\* set, on a word that carries both waker bits
C19_Witness ==
  /\ tx_pc = "notify" /\ tx_op = "send_tick" /\ nsent = 1
  /\ Counter(state) - 1 >= 2 ^ (width - LOCK_BITS - 1)
  /\ Has(state, RX_LOCK)
  /\ Has(state, TX_WAKER_STORED) /\ Has(state, RX_WAKER_STORED)

====
